---- MODULE Spec2Model ----
(***************************************************************************)
(* Unit-of-Work coordinated persistence layer:                             *)
(*   app/infraestructura/persistencia/unit_of_work.py                      *)
(*   app/infraestructura/persistencia/implementaciones_repositorios/...    *)
(*   app/infraestructura/persistencia/excepciones/persistencia_excepciones *)
(* Spec:     one caller (one logical thread of control) drives one         *)
(*           SQLAlchemyUnitOfWork; `async with uow:` blocks may nest.      *)
(* MapSpec:  the exception mapper applied to one exception object.         *)
(* ConcSpec: the caller's unit of work interleaved with a second one.      *)
(* RepoSpec: one repository call, and what it returns, over drawn stores.  *)
(* ServSpec: RolServicio and its provider, next to blocks of the caller.   *)
(***************************************************************************)
EXTENDS Integers, Sequences, FiniteSets, TLC

(***************************************************************************)
(* Bounds of the exploration.                                              *)
(***************************************************************************)
MaxSessions == 2   \* sessions the session factory hands out in one run
MaxWrites == 2   \* repository writes that reach a flush in one run
MaxMsgLen == 2   \* parts of the text of an exception handed to the mapper
MaxRows == 2   \* rows the store holds, besides the role "admin", when a repository is read
MaxPage == 2   \* largest skip and largest limit of a listing

(***************************************************************************)
(* Exceptions.  An exception object is a record:                           *)
(*   cls    class name                                                     *)
(*   oid    object identity (`is`)                                         *)
(*   msg    str(exception), a sequence of tokens (see Tok)                 *)
(*   pgcode exception.orig.pgcode: <<>> = orig has no such attribute,      *)
(*          <<"None">> = attribute present and None, else <<cc, rest>>     *)
(*   args   payload attributes set by the class's __init__                 *)
(*   notes  __notes__ (<<>> when never set)                                *)
(*   cause  oid of __cause__ (0 when None)                                 *)
(***************************************************************************)
NoExc == [cls |-> "None", oid |-> 0, msg |-> <<>>, pgcode |-> <<>>,
          args |-> <<>>, notes |-> <<>>, cause |-> 0]

Tok(k, a, b, n) == [k |-> k, a |-> a, b |-> b, n |-> n]
Txt(s) == Tok("txt", s, "", <<>>)

\* raised objects: what a body or a storage call can raise
Raised(cls, oid, msg, pgcode) ==
    [cls |-> cls, oid |-> oid, msg |-> msg, pgcode |-> pgcode,
     args |-> <<>>, notes |-> <<>>, cause |-> 0]

DominioClasses ==
    {"DominioExcepcion", "PersistenciaError", "ConexionDBError", "TimeoutDBError",
     "PermisosDBError", "ClaveForaneaError", "RestriccionCheckError",
     "EmailInvalidoError", "EmailYaRegistradoError", "UsuarioNoEncontradoError",
     "CredencialesInvalidasError", "RolNoEncontradoError", "RolYaExisteError",
     "ContactoNoEncontradoError", "EntidadNoEncontradaError"}

SQLAlchemyClasses ==
    {"SQLAlchemyError", "IntegrityError", "OperationalError", "ProgrammingError",
     "DataError", "SATimeoutError", "NoResultFound", "MultipleResultsFound"}

\* classes deriving from BaseException but not from Exception
BaseOnlyClasses == {"CancelledError"}

\* isinstance(e, DominioExcepcion)
IsDominio(e) == e.cls \in DominioClasses

\* isinstance(e, SQLAlchemyError)
IsSQLAlchemyError(e) == e.cls \in SQLAlchemyClasses

\* isinstance(e, Exception)
IsException(e) == e.cls # "None" /\ e.cls \notin BaseOnlyClasses

\* type(e).__module__
ModuleOf(e) ==
    IF e.cls \in DominioClasses THEN "app.dominio.excepciones.dominio_excepciones"
    ELSE IF e.cls \in SQLAlchemyClasses THEN "sqlalchemy.exc"
    ELSE IF e.cls \in {"AsyncioTimeoutError", "CancelledError"} THEN "asyncio.exceptions"
    ELSE "builtins"

\* hasattr(e, "__module__") and e.__module__.startswith("app.dominio")
InDominioModule(e) ==
    ModuleOf(e) = "app.dominio.excepciones.dominio_excepciones"

(***************************************************************************)
(* ExcepcionesMapper.  str(exception) is a sequence of tokens:             *)
(*   txt    a = a phrase of free text (lower case)                         *)
(*   unique `duplicate key value violates unique constraint "n"`           *)
(*   fk     `violates foreign key constraint "n"`                          *)
(*   check  `violates check constraint "n"`                                *)
(*   key    `Key (a)=(b)`, followed by ` is not present in table "n"`      *)
(*          when n is not the empty name                                   *)
(* Constraint and table names are sequences of words joined by "_".        *)
(* re.search(pattern, message) is the first token the pattern matches.     *)
(***************************************************************************)
NoName == <<>>

FirstIdx(msg, P(_)) ==
    IF \E i \in 1..Len(msg) : P(msg[i])
    THEN CHOOSE i \in 1..Len(msg) : P(msg[i]) /\ \A j \in 1..(i-1) : ~P(msg[j])
    ELSE 0

IsUniqueTok(t) == t.k = "unique"
IsEmailKeyTok(t) == t.k = "key" /\ t.a = "email"
IsFkTok(t) == t.k = "fk"
IsFkDetailsTok(t) == t.k = "key" /\ t.n # NoName
IsCheckTok(t) == t.k = "check"
IsKeyTok(t) == t.k = "key"

\* re.search(PATRON_..., error_message): 0 when there is no match
PATRON_UNIQUE_VIOLATION(msg) == FirstIdx(msg, IsUniqueTok)
PATRON_EMAIL_COLUMN(msg) == FirstIdx(msg, IsEmailKeyTok)
PATRON_FOREIGN_KEY_VIOLATION(msg) == FirstIdx(msg, IsFkTok)
PATRON_FOREIGN_KEY_DETAILS(msg) == FirstIdx(msg, IsFkDetailsTok)
PATRON_CHECK_CONSTRAINT(msg) == FirstIdx(msg, IsCheckTok)
PATRON_CHECK_DETAILS(msg) == FirstIdx(msg, IsKeyTok)

\* word in error_message.lower()
HasWord(msg, w) == \E i \in 1..Len(msg) : msg[i].k = "txt" /\ msg[i].a = w

\* re.search(PATRON_PERMISSION_ERROR, error_message, re.IGNORECASE)
PATRON_PERMISSION_ERROR(msg) == HasWord(msg, "permission denied")

\* re.search(PATRON_CONNECTION_ERROR, error_message, re.IGNORECASE)
PATRON_CONNECTION_ERROR(msg) ==
    \E w \in {"connection refused", "connection closed", "server unavailable"} :
        HasWord(msg, w)

\* "email" in constraint_name.lower() or "correo" in constraint_name.lower()
\* (variant: only "correo" is looked for)
NameMentionsEmail_Correo(name) ==
    \E i \in 1..Len(name) : name[i] = "correo"

NameMentionsEmail(name) ==
    \E i \in 1..Len(name) : name[i] \in {"email", "correo"}

\* (variant: the words are left as they are)
TitleWord_Plain(w) == w

\* tabla.replace("_", " ").title(): one capitalised word per part
TitleWord(w) ==
    CASE w = "roles" -> "Roles"
      [] w = "usuarios" -> "Usuarios"
      [] w = "user" -> "User"
      [] OTHER -> w
Title(name) == [i \in 1..Len(name) |-> TitleWord(name[i])]

\* a Domain Error object constructed by the mapper from the exception src
Dom(cls, msg, args, src) ==
    [cls |-> cls, oid |-> 10 + src.oid, msg |-> msg, pgcode |-> <<>>,
     args |-> args, notes |-> <<>>, cause |-> 0]

\* an exception raised by the mapper's own code while mapping src
Secondary(cls, what, src) ==
    [cls |-> cls, oid |-> 20 + src.oid, msg |-> <<Txt(what)>>, pgcode |-> <<>>,
     args |-> <<>>, notes |-> <<>>, cause |-> 0]

Returns(e) == [ok |-> TRUE, exc |-> e]
Raises(e) == [ok |-> FALSE, exc |-> e]

EmailYaRegistradoError(email, src) ==
    Dom("EmailYaRegistradoError", <<Txt("El correo electronico ya esta registrado"), Txt(email)>>,
        <<email>>, src)

ClaveForaneaError(entidad, clave, src) ==
    Dom("ClaveForaneaError", <<Txt("No existe la entidad con identificador")>>,
        <<entidad, clave>>, src)

RestriccionCheckError(campo, valor, restriccion, src) ==
    Dom("RestriccionCheckError", <<Txt("El valor para el campo no cumple con las restricciones")>>,
        <<campo, valor, restriccion>>, src)

TimeoutDBError(operacion, src) ==
    Dom("TimeoutDBError", <<Txt("La operacion ha excedido el tiempo limite"), Txt(operacion)>>,
        <<operacion>>, src)

\* the regex fallback of _map_integrity_error (lines 158-196)
IntegrityFallback(e) ==
    LET m == e.msg
        u == PATRON_UNIQUE_VIOLATION(m)
        em == PATRON_EMAIL_COLUMN(m)
        fk == PATRON_FOREIGN_KEY_VIOLATION(m)
        fkd == PATRON_FOREIGN_KEY_DETAILS(m)
        ck == PATRON_CHECK_CONSTRAINT(m)
        ckd == PATRON_CHECK_DETAILS(m)
    IN  IF u # 0 /\ NameMentionsEmail(m[u].n)
        THEN Returns(EmailYaRegistradoError(IF em # 0 THEN m[em].b ELSE "desconocido", e))
        ELSE IF fk # 0 /\ fkd # 0
        THEN Returns(ClaveForaneaError(Title(m[fkd].n), m[fkd].b, e))
        ELSE IF ck # 0 /\ ckd # 0
        THEN Returns(RestriccionCheckError(m[ckd].a, m[ckd].b, m[ck].n, e))
        ELSE Returns(Dom("DominioExcepcion", <<Txt("Error de integridad de datos: ")>> \o m, <<>>, e))

_map_integrity_error(e) ==
    LET m == e.msg
        u == PATRON_UNIQUE_VIOLATION(m)
        em == PATRON_EMAIL_COLUMN(m)
        fkd == PATRON_FOREIGN_KEY_DETAILS(m)
        ck == PATRON_CHECK_CONSTRAINT(m)
        ckd == PATRON_CHECK_DETAILS(m)
        uname == IF u # 0 THEN m[u].n ELSE <<"desconocido">>
        cname == IF ck # 0 THEN m[ck].n ELSE <<"desconocido">>
    IN  IF e.pgcode = <<>> THEN IntegrityFallback(e)
        ELSE IF e.pgcode = <<"23", "505">>
        THEN IF NameMentionsEmail(uname)
             THEN Returns(EmailYaRegistradoError(IF em # 0 THEN m[em].b ELSE "desconocido", e))
             ELSE Returns(Dom("DominioExcepcion", <<Txt("Violacion de unicidad: "), Tok("name", "", "", uname)>>, <<>>, e))
        ELSE IF e.pgcode = <<"23", "503">>
        THEN IF fkd # 0
             THEN Returns(ClaveForaneaError(Title(m[fkd].n), m[fkd].b, e))
             \* ClaveForaneaError.__init__(entidad, clave) called with three arguments
             ELSE Raises(Secondary("TypeError", "__init__() takes 3 positional arguments but 4 were given", e))
        ELSE IF e.pgcode = <<"23", "514">>
        THEN IF ckd # 0
             THEN Returns(RestriccionCheckError(m[ckd].a, m[ckd].b, cname, e))
             ELSE Returns(RestriccionCheckError("valor proporcionado", "no cumple con las restricciones",
                                                <<"Violacion de restriccion de verificacion:">> \o cname, e))
        ELSE IntegrityFallback(e)

_map_data_error(e) ==
    LET detalle(t) == Returns(Dom("DominioExcepcion", <<Txt(t)>> \o e.msg, <<>>, e))
    IN  IF e.pgcode = <<"22", "001">> THEN detalle("Error de datos: El valor es demasiado largo para el campo. Detalles: ")
        ELSE IF e.pgcode = <<"22", "003">> THEN detalle("Error de datos: El valor numerico esta fuera de rango. Detalles: ")
        ELSE IF e.pgcode = <<"22", "007">> THEN detalle("Error de datos: Formato de fecha/hora invalido. Detalles: ")
        ELSE IF e.pgcode = <<"22", "P02">> THEN detalle("Error de datos: Formato de texto invalido para el tipo de datos. Detalles: ")
        ELSE detalle("Error de datos: El valor proporcionado no es valido para este campo. Detalles: ")

OperationalFallback(e) ==
    IF PATRON_CONNECTION_ERROR(e.msg)
    THEN Returns(Dom("ConexionDBError", <<Txt("Error de conexion a la base de datos: ")>> \o e.msg, <<>>, e))
    ELSE IF PATRON_PERMISSION_ERROR(e.msg)
    THEN Returns(Dom("PermisosDBError", <<Txt("Error de permisos en la base de datos: ")>> \o e.msg, <<>>, e))
    ELSE Returns(Dom("PersistenciaError", <<Txt("Error operacional en la base de datos: ")>> \o e.msg, <<>>, e))

_map_operational_error(e) ==
    IF e.pgcode = <<>> THEN OperationalFallback(e)
    \* pg_code.startswith on None
    ELSE IF e.pgcode = <<"None">>
    THEN Raises(Secondary("AttributeError", "'NoneType' object has no attribute 'startswith'", e))
    ELSE IF e.pgcode[1] = "08"
    THEN Returns(Dom("ConexionDBError", <<Txt("Error de conexion a la base de datos: ")>> \o e.msg, <<>>, e))
    ELSE IF e.pgcode[1] = "42"
    THEN IF e.pgcode = <<"42", "501">>
         THEN Returns(Dom("PermisosDBError", <<Txt("Privilegios insuficientes para realizar la operacion: ")>> \o e.msg, <<>>, e))
         ELSE Returns(Dom("PersistenciaError", <<Txt("Error de sintaxis SQL: ")>> \o e.msg, <<>>, e))
    \* RecursosDBError is neither defined nor imported
    ELSE IF e.pgcode[1] = "53"
    THEN Raises(Secondary("NameError", "name 'RecursosDBError' is not defined", e))
    ELSE IF e.pgcode[1] = "57"
    THEN Returns(Dom("PersistenciaError", <<Txt("Error de operador en la base de datos: ")>> \o e.msg, <<>>, e))
    ELSE IF e.pgcode[1] = "58"
    THEN Returns(Dom("PersistenciaError", <<Txt("Error de sistema en la base de datos: ")>> \o e.msg, <<>>, e))
    ELSE OperationalFallback(e)

\* (variant: the operation is never inferred)
_map_timeout_error_Unknown(e) == Returns(TimeoutDBError("desconocida", e))

_map_timeout_error(e) ==
    Returns(TimeoutDBError(
        IF HasWord(e.msg, "query") THEN "consulta"
        ELSE IF HasWord(e.msg, "update") THEN "actualizacion"
        ELSE IF HasWord(e.msg, "insert") THEN "insercion"
        ELSE IF HasWord(e.msg, "delete") THEN "eliminacion"
        ELSE "desconocida", e))

_map_programming_error(e) ==
    IF PATRON_PERMISSION_ERROR(e.msg)
    THEN Returns(Dom("PermisosDBError", <<Txt("Error de permisos en la base de datos: ")>> \o e.msg, <<>>, e))
    ELSE Returns(Dom("PersistenciaError", <<Txt("Error de programacion SQL: ")>> \o e.msg, <<>>, e))

_map_sqlalchemy_error(e) ==
    Returns(Dom("PersistenciaError", <<Txt("Error de base de datos: ")>> \o e.msg, <<>>, e))

\* (variant: a Domain Error is rebuilt instead of returned)
map_exception_Copy(e) ==
    IF e.cls = "IntegrityError" THEN _map_integrity_error(e)
    ELSE IF e.cls = "OperationalError" THEN _map_operational_error(e)
    ELSE IF e.cls = "SATimeoutError" THEN _map_timeout_error(e)
    ELSE IF e.cls = "AsyncioTimeoutError" THEN _map_timeout_error(e)
    ELSE IF e.cls = "ProgrammingError" THEN _map_programming_error(e)
    ELSE IF e.cls = "DataError" THEN _map_data_error(e)
    ELSE IF IsSQLAlchemyError(e) THEN _map_sqlalchemy_error(e)
    ELSE Returns(Dom("DominioExcepcion", <<Txt("Error inesperado: ")>> \o e.msg, <<>>, e))

map_exception(e) ==
    IF e.cls = "IntegrityError" THEN _map_integrity_error(e)
    ELSE IF e.cls = "OperationalError" THEN _map_operational_error(e)
    ELSE IF e.cls = "SATimeoutError" THEN _map_timeout_error(e)
    ELSE IF e.cls = "AsyncioTimeoutError" THEN _map_timeout_error(e)
    ELSE IF e.cls = "ProgrammingError" THEN _map_programming_error(e)
    ELSE IF e.cls = "DataError" THEN _map_data_error(e)
    ELSE IF IsSQLAlchemyError(e) THEN _map_sqlalchemy_error(e)
    ELSE IF IsDominio(e) THEN Returns(e)
    ELSE Returns(Dom("DominioExcepcion", <<Txt("Error inesperado: ")>> \o e.msg, <<>>, e))

\* __notes__ := [original class and message, traceback] on the mapped exception
\* r (an exception the mapper's code raised leaves wrap_exception as it is)
WithNotes(r, e) ==
    IF r.ok
    THEN Returns([r.exc EXCEPT !.notes = <<e.cls, e.msg, "traceback">>])
    ELSE r

\* (variant: every exception is wrapped as a new PersistenciaError)
wrap_exception_Flat(e) == WithNotes(_map_sqlalchemy_error(e), e)

\* map_exception, then the notes
wrap_exception(e) == WithNotes(map_exception(e), e)

(***************************************************************************)
(* The store.  A table row is [t, id, key, w]: its table, its primary      *)
(* key, the value of its unique column (usuarios.email, roles.name,        *)
(* contactos.user_id) and the write that produced it.  A link is a row of  *)
(* the association table user_roles.  A write is named <<session, n>>.     *)
(***************************************************************************)
\* the tables whose repository the bodies of this model save to, delete from and
\* read (roles are only looked up by asignar_rol; "admin" exists from the start)
Tables == {"usuarios"}

KeysOf(t) ==
    IF t = "usuarios" THEN <<"a@b.com", "x@y.com">>
    ELSE IF t = "roles" THEN <<"admin", "user">>
    ELSE <<"u1", "u2">>

Sessions == 1..MaxSessions

\* the store the application starts on: the role "admin" exists, written by
\* no session of this run
InitDB == [rows |-> {[t |-> "roles", id |-> 1, key |-> "admin", w |-> <<0, 0>>]},
           links |-> {}, log |-> {}]

\* primary key generated for the n-th write of session s (default=uuid.uuid4)
NewId(s, n) == 10 * s + n

\* a flushed, not yet committed write
Op(kind, t, id, key, rid, w) ==
    [kind |-> kind, t |-> t, id |-> id, key |-> key, rid |-> rid, w |-> w]

\* the effect of one flushed write on the rows and links
ApplyOp(d, op) ==
    IF op.kind = "save"
    THEN [d EXCEPT !.rows = {r \in @ : r.id # op.id}
                             \cup {[t |-> op.t, id |-> op.id, key |-> op.key, w |-> op.w]},
                   !.log = @ \cup {op.w}]
    ELSE IF op.kind = "delete"
    THEN [d EXCEPT !.rows = {r \in @ : r.id # op.id},
                   !.links = {l \in @ : l.uid # op.id /\ l.rid # op.id},
                   !.log = @ \cup {op.w}]
    ELSE IF op.kind = "remover"
    THEN [d EXCEPT !.links = {l \in @ : l.uid # op.id \/ l.rid # op.rid},
                   !.log = @ \cup {op.w}]
    ELSE [d EXCEPT !.links = @ \cup {[uid |-> op.id, rid |-> op.rid, w |-> op.w]},
                   !.log = @ \cup {op.w}]

RECURSIVE ApplyOps(_, _)
ApplyOps(d, ops) ==
    IF ops = <<>> THEN d ELSE ApplyOps(ApplyOp(d, Head(ops)), Tail(ops))

(***************************************************************************)
(* What the caller's code and the storage layer can raise.                 *)
(***************************************************************************)
\* exceptions a scope body raises on its own
BodyExcs ==
    {Raised("ValueError", 1, <<Txt("boom")>>, <<>>),
     [Raised("UsuarioNoEncontradoError", 1, <<Txt("No se encontro ningun usuario")>>, <<>>)
        EXCEPT !.args = <<"42">>],
     Raised("CancelledError", 1, <<>>, <<>>)}

\* exceptions a storage call (get, flush, refresh, commit, rollback) raises
GenericError(oid) == Raised("SQLAlchemyError", oid, <<Txt("error de sql")>>, <<>>)

StorageExcs(oid) ==
    {GenericError(oid),
     Raised("OperationalError", oid, <<Txt("too many connections")>>, <<"53", "300">>),
     Raised("AsyncioTimeoutError", oid, <<Txt("database operation timed out")>>, <<>>)}

\* sqlalchemy.exc.TimeoutError raised while the INSERT of a flush is sent
SaTimeout(oid) == Raised("SATimeoutError", oid, <<Txt("insert"), Txt("timed out")>>, <<>>)

\* the unique index of the column (unique=True, index=True) rejects the flush
UniqueColumn(t) ==
    IF t = "usuarios" THEN "email" ELSE IF t = "roles" THEN "name" ELSE "user_id"

DupError(t, key, oid) ==
    Raised("IntegrityError", oid,
           <<Tok("unique", "", "", <<"ix", t, UniqueColumn(t)>>),
             Tok("key", UniqueColumn(t), key, NoName)>>,
           <<"23", "505">>)

\* accessing a method of uow.usuarios / uow.roles / uow.contactos when it is None
NoneAttr == Raised("AttributeError", 1, <<Txt("'NoneType' object has no attribute")>>, <<>>)

(***************************************************************************)
(* State.                                                                  *)
(*   uow       the SQLAlchemyUnitOfWork instance: session and the three    *)
(*             repositories, each given by the session it is bound to      *)
(*             (0 = None)                                                  *)
(*   sessions  every session the factory can hand out                      *)
(*   db        the committed store                                         *)
(*   stack     the `async with uow:` blocks the caller is inside of,       *)
(*             innermost last; each remembers the session of its entry     *)
(*   exc       the exception propagating in the innermost body             *)
(*   last      what the __aexit__, commit, rollback or begin that has just *)
(*             run did (NoEvent after any other operation)                 *)
(***************************************************************************)
VARIABLES uow, sessions, db, stack, exc, last

vars == <<uow, sessions, db, stack, exc, last>>

NoneUoW == [session |-> 0, usuarios |-> 0, roles |-> 0, contactos |-> 0]

\* status     "new" (not handed out), "open", "closed", or "left": still open
\*            although the block that acquired it has been left
\* ops        the flushed, uncommitted writes
\* nw         writes flushed on the session so far
\* closes     calls of close()
\* midCommit  the body has committed on the session
\* aborted    the block that acquired it was left by an exception, with no
\*            commit issued by its body
\* other      it was acquired by the second unit of work (see OtherEnter)
\* raised     the exception propagating in the block of the second unit of
\*            work and, once that block is left, the exception it let out
\* servicio   it is the db_session a RolServicio was constructed with
NewSession == [status |-> "new", ops |-> <<>>, nw |-> 0, closes |-> 0,
               midCommit |-> FALSE, aborted |-> FALSE,
               other |-> FALSE, raised |-> NoExc, servicio |-> FALSE]

\* ev     "exit" for an __aexit__; "commit", "rollback", "begin" for a call of
\*        uow.commit(), uow.rollback(), uow.begin()
\* sess   uow.session when the operation began
\* frame  the session acquired when the block was entered
\* x      what self.rollback() / self.commit() (session.commit() /
\*        session.rollback(), the body of begin) raised
\* out    the exception the operation let out to its caller
\* commits, rollbacks, closes   calls the operation made on sess
\* returned  (for a call of the mapper, see Called, or of a repository, see
\*           Answer) the call returned: out was returned, or res was
\* call, res  (for a call of a repository) its arguments and the value it
\*           returned
None == <<>>

NoCall == [t |-> "", id |-> 0, key |-> "", fc |-> {}, skip |-> 0, limit |-> 0]

Ev(ev, sess, frame, x, out, c, r, cl) ==
    [ev |-> ev, sess |-> sess, frame |-> frame, x |-> x, out |-> out,
     commits |-> c, rollbacks |-> r, closes |-> cl, returned |-> FALSE,
     call |-> NoCall, res |-> None]

\* last outside the state that an __aexit__ leaves
NoEvent == Ev("none", 0, 0, NoExc, NoExc, 0, 0, 0)

Init ==
    /\ uow = NoneUoW
    /\ sessions = [s \in Sessions |-> NewSession]
    /\ db = InitDB
    /\ stack = <<>>
    /\ exc = NoExc
    /\ last = NoEvent

Running == exc.cls = "None"
InBody == Len(stack) > 0 /\ Running

\* what the session sees: the committed store and its own flushed writes
View(s) == ApplyOps(db, sessions[s].ops)

IdsIn(s, t) == {r.id : r \in {q \in View(s).rows : q.t = t}}

\* the ids a repository of the unit of work can resolve
IdsInRepo(s, t) == IF s = 0 THEN {} ELSE IdsIn(s, t)

RECURSIVE SumNw(_)
SumNw(S) == IF S = {} THEN 0
            ELSE LET q == CHOOSE q \in S : TRUE IN sessions[q].nw + SumNw(S \ {q})

\* the writes flushed so far, on all sessions
Flushes == SumNw(Sessions)

\* the session acquired by the innermost block the caller is in (0: in none)
Frame == IF Len(stack) > 0 THEN stack[Len(stack)].sess ELSE 0

\* an exception raised in the body propagates; outside any block the caller gets it
Propagate(e) == IF Len(stack) > 0 THEN e ELSE NoExc

(***************************************************************************)
(* SQLAlchemyUnitOfWork.__aenter__                                         *)
(***************************************************************************)
\* (variant: the factory hands back a session it has made before)
session_factory_Reuse == CHOOSE s \in Sessions : sessions[s].status # "open"

session_factory == CHOOSE s \in Sessions :
                      sessions[s].status = "new" /\ \A q \in 1..(s-1) : sessions[q].status # "new"

\* (variant: one repository is left as it was)
Repositorios_Partial(s) ==
    [session |-> s, usuarios |-> s, roles |-> s, contactos |-> uow.contactos]

\* lines 72-77: self.session and the three repositories constructed with it
Repositorios(s) == [session |-> s, usuarios |-> s, roles |-> s, contactos |-> s]

Enter ==
    /\ Running
    /\ \E s \in Sessions : sessions[s].status = "new"
    /\ LET s == session_factory
       IN  /\ sessions' = [sessions EXCEPT ![s].status = "open"]
           /\ uow' = Repositorios(s)
           /\ stack' = Append(stack, [sess |-> s])
           /\ last' = NoEvent
    /\ UNCHANGED <<db, exc>>

(***************************************************************************)
(* Repositories (SQLAlchemyBaseRepositorio, UsuarioRepositorioImpl).       *)
(* A repository is reached through uow.usuarios / uow.roles /              *)
(* uow.contactos and works on the session it was constructed with.         *)
(***************************************************************************)
RepoOf(t) == IF t = "usuarios" THEN uow.usuarios
             ELSE IF t = "roles" THEN uow.roles ELSE uow.contactos

\* except SQLAlchemyError as e: raise ExcepcionesMapper.wrap_exception(e)
\* (anything else the storage call raised leaves the method as it is)
RepoCatch(x) == IF IsSQLAlchemyError(x) THEN wrap_exception(x).exc ELSE x

\* the unique values of t in the store or in a flushed write of any session
UsedKeys(t) ==
    {r.key : r \in {q \in db.rows : q.t = t}}
    \cup UNION {{sessions[q].ops[i].key : i \in {j \in 1..Len(sessions[q].ops) :
                                                sessions[q].ops[j].kind = "save"
                                                /\ sessions[q].ops[j].t = t}}
                : q \in Sessions}

\* the values a new entity is saved with: one already used, or the first unused
\* one (the values are interchangeable; an update leaves the value as it is)
NewKeys(t) ==
    LET ks == KeysOf(t)
        unused == {i \in 1..Len(ks) : ks[i] \notin UsedKeys(t)}
    IN  {ks[i] : i \in {j \in 1..Len(ks) : ks[j] \in UsedKeys(t)
                                          \/ (j \in unused /\ \A k \in unused : j <= k)}}

\* (variant: the flush commits)
flush_Commits(d, ops) == ApplyOps(d, ops)

\* await self.db_session.flush(): the pending writes ops are sent inside the
\* transaction; the committed store d stays as it is
flush(d, ops) == d

\* SQLAlchemyBaseRepositorio.save: get (when the entity has an id), populate,
\* add, flush, refresh.  stage names the storage call that raises x.
Save(t, id, key, stage, x) ==
    /\ InBody
    /\ RepoOf(t) # 0
    /\ LET s == RepoOf(t)
           existing == id # 0 /\ id \in IdsIn(s, t)
           rowid == IF existing THEN id ELSE NewId(s, sessions[s].nw + 1)
           dup == \E r \in View(s).rows : r.t = t /\ r.key = key /\ r.id # rowid
           \* another transaction holds the same unique value uncommitted: the
           \* flush waits for it and cannot return while this caller runs
           blocked == \E q \in Sessions \ {s} : \E i \in 1..Len(sessions[q].ops) :
                         /\ sessions[q].ops[i].kind = "save"
                         /\ sessions[q].ops[i].t = t
                         /\ sessions[q].ops[i].key = key
                         /\ sessions[q].ops[i].id # rowid
           flushed == stage \in {"refresh", "ok"}
           w == <<s, sessions[s].nw + 1>>
           out == IF stage = "ok" THEN NoExc ELSE RepoCatch(x)
       IN  /\ stage = "get" => id # 0
           /\ IF existing THEN \E r \in View(s).rows : r.id = id /\ r.key = key
                          ELSE key \in NewKeys(t)
           /\ stage = "ok" <=> x = NoExc
           /\ x = DupError(t, key, 1) => (dup /\ stage = "flush")
           /\ dup => (stage = "get" \/ x = DupError(t, key, 1))
           /\ blocked => stage \in {"get", "flush"}
           /\ flushed => Flushes < MaxWrites
           /\ sessions' = IF flushed
                          THEN [sessions EXCEPT ![s].ops = Append(@, Op("save", t, rowid, key, 0, w)),
                                                ![s].nw = @ + 1]
                          ELSE sessions
           /\ db' = IF flushed THEN flush(db, sessions'[s].ops) ELSE db
           /\ exc' = out
           /\ last' = NoEvent
    /\ UNCHANGED <<uow, stack>>

\* SQLAlchemyBaseRepositorio.delete: get, then delete and flush when found
Delete(t, id, stage, x) ==
    /\ InBody
    /\ RepoOf(t) # 0
    /\ LET s == RepoOf(t)
           found == id \in IdsIn(s, t)
           flushed == found /\ stage = "ok"
           w == <<s, sessions[s].nw + 1>>
           out == IF stage = "ok" THEN NoExc ELSE RepoCatch(x)
       IN  /\ stage = "flush" => found
           /\ stage = "ok" <=> x = NoExc
           /\ flushed => Flushes < MaxWrites
           /\ sessions' = IF flushed
                          THEN [sessions EXCEPT ![s].ops = Append(@, Op("delete", t, id, "", 0, w)),
                                                ![s].nw = @ + 1]
                          ELSE sessions
           /\ db' = IF flushed THEN flush(db, sessions'[s].ops) ELSE db
           /\ exc' = out
           /\ last' = NoEvent
    /\ UNCHANGED <<uow, stack>>

\* raised by asignar_rol itself when a lookup finds nothing
NoEncontrado(cls) ==
    [Raised(cls, 5, <<Txt("no encontrado")>>, <<>>) EXCEPT !.args = <<"id">>]

\* UsuarioRepositorioImpl.asignar_rol: get the user, get the role, append the
\* role and flush unless it is already assigned
AsignarRol(uid, rid, stage, x) ==
    /\ InBody
    /\ uow.usuarios # 0
    /\ LET s == uow.usuarios
           hayUsuario == uid \in IdsIn(s, "usuarios")
           hayRol == rid \in IdsIn(s, "roles")
           yaAsignado == \E l \in View(s).links : l.uid = uid /\ l.rid = rid
           flushed == stage = "ok" /\ hayUsuario /\ hayRol /\ ~yaAsignado
           w == <<s, sessions[s].nw + 1>>
           out == IF stage # "ok" THEN RepoCatch(x)
                  ELSE IF ~hayUsuario THEN NoEncontrado("UsuarioNoEncontradoError")
                  ELSE IF ~hayRol THEN NoEncontrado("RolNoEncontradoError")
                  ELSE NoExc
       IN  /\ stage = "flush" => (hayUsuario /\ hayRol /\ ~yaAsignado)
           /\ stage = "ok" <=> x = NoExc
           /\ flushed => Flushes < MaxWrites
           /\ sessions' = IF flushed
                          THEN [sessions EXCEPT ![s].ops = Append(@, Op("asignar", "user_roles", uid, "", rid, w)),
                                                ![s].nw = @ + 1]
                          ELSE sessions
           /\ db' = IF flushed THEN flush(db, sessions'[s].ops) ELSE db
           /\ exc' = out
           /\ last' = NoEvent
    /\ UNCHANGED <<uow, stack>>

\* SQLAlchemyBaseRepositorio.get_by_id
GetById(t, id, x) ==
    /\ InBody
    /\ RepoOf(t) # 0
    /\ LET out == IF x = NoExc THEN NoExc ELSE RepoCatch(x)
       IN  /\ exc' = out
           /\ last' = NoEvent
    /\ UNCHANGED <<uow, sessions, db, stack>>

\* uow.usuarios.<method>(...) while uow.usuarios is None
NoRepo ==
    /\ Running
    /\ uow.usuarios = 0
    /\ exc' = Propagate(NoneAttr)
    /\ last' = NoEvent
    /\ UNCHANGED <<uow, sessions, db, stack>>

(***************************************************************************)
(* SQLAlchemyUnitOfWork.commit / rollback, called by the body (or by the   *)
(* caller outside any block): `if self.session: await self.session...`     *)
(***************************************************************************)
\* (variant: the commit makes nothing durable)
Committed_Nothing(s) == db

\* session.commit() on s: the flushed writes become the committed store
Committed(s) == ApplyOps(db, sessions[s].ops)

\* (variant: the session is used without the test)
SessionCall_Unguarded(s, x) == IF s = 0 THEN NoneAttr ELSE x

\* `if self.session: await self.session.commit()` (or rollback): what the call
\* lets out when the storage call raises x; with no session nothing is called
SessionCall(s, x) == IF s = 0 THEN NoExc ELSE x

Commit(x) ==
    /\ Running
    /\ uow.session = 0 => x = NoExc
    /\ LET s == uow.session
           out == SessionCall(s, x)
       IN  /\ IF s # 0 /\ x = NoExc
              THEN /\ db' = Committed(s)
                   /\ sessions' = [sessions EXCEPT ![s].ops = <<>>, ![s].midCommit = TRUE]
              ELSE UNCHANGED <<db, sessions>>
           /\ exc' = Propagate(out)
           /\ last' = Ev("commit", s, Frame, x, out, IF s # 0 THEN 1 ELSE 0, 0, 0)
    /\ UNCHANGED <<uow, stack>>

Rollback(x) ==
    /\ Running
    /\ uow.session = 0 => x = NoExc
    /\ LET s == uow.session
           out == SessionCall(s, x)
       IN  /\ sessions' = IF s # 0 /\ x = NoExc THEN [sessions EXCEPT ![s].ops = <<>>] ELSE sessions
           /\ exc' = Propagate(out)
           /\ last' = Ev("rollback", s, Frame, x, out, 0, IF s # 0 THEN 1 ELSE 0, 0)
    /\ UNCHANGED <<uow, db, stack>>

\* the body raises an exception of its own
BodyRaise(b) ==
    /\ InBody
    /\ exc' = b
    /\ last' = NoEvent
    /\ UNCHANGED <<uow, sessions, db, stack>>

(***************************************************************************)
(* SQLAlchemyUnitOfWork.begin: the whole `async with uow.begin() as        *)
(* session:` block as one step; e is what its body raises (NoExc: the body *)
(* returns).                                                               *)
(***************************************************************************)
NotEntered ==
    Raised("RuntimeError", 1,
           <<Txt("Cannot begin transaction on a UnitOfWork not yet entered.")>>, <<>>)

\* raise ExcepcionesMapper.wrap_exception(e) from e: r is what wrap_exception
\* returned or raised
RaiseFrom(r, e) == IF r.ok THEN [r.exc EXCEPT !.cause = e.oid] ELSE r.exc

\* lines 196-202: except Exception as e
BeginHandler(e) ==
    IF ~IsException(e) THEN e
    ELSE IF ~InDominioModule(e) THEN RaiseFrom(wrap_exception(e), e)
    ELSE e

Begin(e) ==
    /\ Running
    /\ uow.session = 0 => e = NoExc
    /\ LET out == IF uow.session = 0 THEN NotEntered
                  ELSE IF e.cls = "None" THEN NoExc ELSE BeginHandler(e)
       IN  /\ exc' = Propagate(out)
           /\ last' = Ev("begin", uow.session, Frame, e, out, 0, 0, 0)
    /\ UNCHANGED <<uow, sessions, db, stack>>

(***************************************************************************)
(* SQLAlchemyUnitOfWork.__aexit__                                          *)
(***************************************************************************)
\* lines 125-130: except Exception as e
ExitHandler(e) ==
    IF ~IsException(e) THEN e
    ELSE IF ~InDominioModule(e) THEN RaiseFrom(wrap_exception(e), e)
    ELSE e

\* lines 102-124: the exception that leaves the try block (NoExc: `return False`
\* with no exception in flight); x is what self.rollback() / self.commit() raised
ExitTry(excIn, x) ==
    IF excIn.cls # "None"
    THEN IF x.cls # "None" THEN ExitHandler(x)
         ELSE IF ~IsException(excIn) THEN excIn
         ELSE IF ~InDominioModule(excIn)
         THEN ExitHandler(RaiseFrom(wrap_exception(excIn), excIn))
         ELSE excIn
    ELSE IF x.cls # "None" THEN ExitHandler(x) ELSE NoExc

\* the block that acquired session f has been left
Left(ss, f, excIn) ==
    [ss EXCEPT ![f].status = "left",
               ![f].aborted = excIn.cls # "None" /\ ~ss[f].midCommit,
               ![f].midCommit = FALSE]

\* lines 103-105, 121-123: the calls __aexit__ makes on the session
ExitRollbackCalls(excIn) == IF excIn.cls # "None" THEN 1 ELSE 0

\* (variant: __aexit__ calls commit on every path)
ExitCommitCalls_Always(excIn) == 1

ExitCommitCalls(excIn) == IF excIn.cls # "None" THEN 0 ELSE 1

\* (variant: __aexit__ commits whatever left the body)
ExitCommits_Always(excIn, x) == x.cls = "None"

\* the flushed writes are committed iff commit was called and returned
ExitCommits(excIn, x) == ExitCommitCalls(excIn) = 1 /\ x.cls = "None"

\* lines 131-139: finally
ExitFinally(ss, s) == [ss EXCEPT ![s].ops = <<>>, ![s].status = "closed", ![s].closes = @ + 1]

Exit(x) ==
    /\ Len(stack) > 0
    /\ LET f == Frame
           s == uow.session
           rest == SubSeq(stack, 1, Len(stack) - 1)
           out == IF s = 0 THEN exc ELSE ExitTry(exc, x)
       IN  /\ s = 0 => x = NoExc
           /\ stack' = rest
           /\ exc' = IF Len(rest) > 0 THEN out ELSE NoExc
           /\ IF s = 0
              THEN \* line 99: if self.session is None: return False
                   /\ sessions' = Left(sessions, f, exc)
                   /\ UNCHANGED <<uow, db>>
                   /\ last' = Ev("exit", 0, f, NoExc, out, 0, 0, 0)
              ELSE /\ db' = IF ExitCommits(exc, x) THEN Committed(s) ELSE db
                   /\ sessions' = ExitFinally(Left(sessions, f, exc), s)
                   /\ uow' = NoneUoW
                   /\ last' = Ev("exit", s, f, x, out,
                                 ExitCommitCalls(exc), ExitRollbackCalls(exc), 1)

(***************************************************************************)
(* The caller: every call it can make, with the inputs of the exploration. *)
(* A call is made only where the operation can run (the caller is in a     *)
(* body, or no exception is propagating).                                  *)
(***************************************************************************)
SaveStep ==
    /\ InBody
    /\ \E t \in Tables, stage \in {"get", "flush", "refresh", "ok"} :
         \E key \in {KeysOf(t)[i] : i \in 1..Len(KeysOf(t))}, id \in {0} \cup IdsInRepo(RepoOf(t), t) :
           \E x \in StorageExcs(1) \cup {NoExc, DupError(t, key, 1), SaTimeout(1)} :
             Save(t, id, key, stage, x)

DeleteStep ==
    /\ InBody
    /\ \E t \in Tables, stage \in {"get", "flush", "ok"} :
         \E id \in {0} \cup IdsInRepo(RepoOf(t), t), x \in {NoExc, GenericError(1)} :
           Delete(t, id, stage, x)

AsignarRolStep ==
    /\ InBody
    /\ \E stage \in {"get", "flush", "ok"}, x \in {NoExc, GenericError(1)} :
         \E uid \in {0} \cup IdsInRepo(uow.usuarios, "usuarios"),
            rid \in {0} \cup IdsInRepo(uow.usuarios, "roles") :
           AsignarRol(uid, rid, stage, x)

GetByIdStep ==
    /\ InBody
    /\ \E t \in Tables, x \in {NoExc, GenericError(1)} :
         \E id \in {0} \cup IdsInRepo(RepoOf(t), t) : GetById(t, id, x)

CommitStep == Running /\ \E x \in {NoExc, GenericError(1)} : Commit(x)

RollbackStep == Running /\ \E x \in {NoExc, GenericError(1)} : Rollback(x)

BodyRaiseStep == InBody /\ \E b \in BodyExcs : BodyRaise(b)

BeginStep == Running /\ \E e \in BodyExcs \cup StorageExcs(1) \cup {NoExc} : Begin(e)

ExitStep == Len(stack) > 0 /\ \E x \in StorageExcs(2) \cup {NoExc} : Exit(x)

Next ==
    \/ Enter
    \/ SaveStep
    \/ DeleteStep
    \/ AsignarRolStep
    \/ GetByIdStep
    \/ NoRepo
    \/ CommitStep
    \/ RollbackStep
    \/ BodyRaiseStep
    \/ BeginStep
    \/ ExitStep

Spec == Init /\ [][Next]_vars

(***************************************************************************)
(* The mapper on its own: an exception is handed to ExcepcionesMapper, to  *)
(* the except clause of a repository method or to the __aexit__ of a block *)
(* whose rollback succeeds.  exc is the exception handed over; last is the *)
(* call that has just been made on it and its outcome.                     *)
(***************************************************************************)
\* the parts an error text is made of
MsgTokens ==
    {Tok("unique", "", "", <<"ix", "usuarios", "email">>),
     Tok("unique", "", "", <<"email", "templates", "slug", "key">>),
     Tok("unique", "", "", <<"otra", "restriccion">>),
     Tok("key", "email", "x@y.com", NoName),
     Tok("key", "slug", "welcome", NoName),
     Tok("key", "rol_id", "999", <<"roles">>),
     Tok("fk", "", "", <<"usuarios", "roles", "rol", "id", "fkey">>),
     Tok("check", "", "", <<"ck", "edad">>),
     Txt("query"), Txt("insert"), Txt("permission denied"),
     Txt("connection refused")}

Messages == UNION {[1..n -> MsgTokens] : n \in 0..MaxMsgLen}

\* exception.orig.pgcode of the DBAPI errors
PgCodes(cls) ==
    IF cls = "IntegrityError"
    THEN {<<>>, <<"None">>, <<"23", "503">>, <<"23", "505">>, <<"23", "514">>}
    ELSE IF cls = "OperationalError"
    THEN {<<>>, <<"None">>, <<"08", "006">>, <<"42", "501">>, <<"42", "601">>,
          <<"53", "300">>, <<"57", "014">>, <<"58", "030">>}
    ELSE IF cls = "DataError" THEN {<<>>, <<"22", "001">>, <<"22", "P02">>}
    ELSE {<<>>}

MapClasses ==
    SQLAlchemyClasses
    \cup {"AsyncioTimeoutError", "ValueError"}
    \cup {"DominioExcepcion", "EmailYaRegistradoError", "TimeoutDBError"}

MapInit ==
    /\ uow = NoneUoW
    /\ sessions = [s \in Sessions |-> NewSession]
    /\ db = InitDB
    /\ stack = <<>>
    /\ \E cls \in MapClasses, m \in Messages :
         \E pg \in PgCodes(cls) : exc = Raised(cls, 1, m, pg)
    /\ last = NoEvent

\* the call fn(arg) and its outcome r
Called(fn, arg, r) ==
    [NoEvent EXCEPT !.ev = fn, !.x = arg, !.out = r.exc, !.returned = r.ok]

\* ExcepcionesMapper.map_exception(exc)
MapException ==
    /\ last = NoEvent
    /\ last' = Called("map_exception", exc, map_exception(exc))
    /\ UNCHANGED <<uow, sessions, db, stack, exc>>

\* ExcepcionesMapper.map_exception on what map_exception returned
MapAgain ==
    /\ last.ev = "map_exception"
    /\ last.returned
    /\ last' = Called("map_exception", last.out, map_exception(last.out))
    /\ UNCHANGED <<uow, sessions, db, stack, exc>>

\* ExcepcionesMapper.wrap_exception(exc)
WrapException ==
    /\ last = NoEvent
    /\ last' = Called("wrap_exception", exc, wrap_exception(exc))
    /\ UNCHANGED <<uow, sessions, db, stack, exc>>

\* a storage call of a repository method raises exc
RepoRaises ==
    /\ last = NoEvent
    /\ last' = Called("repository", exc, Raises(RepoCatch(exc)))
    /\ UNCHANGED <<uow, sessions, db, stack, exc>>

\* exc escapes the body of a block whose rollback returns
BodyRaises ==
    /\ last = NoEvent
    /\ last' = Called("__aexit__", exc, Raises(ExitTry(exc, NoExc)))
    /\ UNCHANGED <<uow, sessions, db, stack, exc>>

MapNext ==
    \/ MapException
    \/ MapAgain
    \/ WrapException
    \/ RepoRaises
    \/ BodyRaises

MapSpec == MapInit /\ [][MapNext]_vars

(***************************************************************************)
(* Two units of work over one store.  Besides the caller above, a second   *)
(* task runs `async with otro_uow as u: await u.usuarios.save(nuevo)` on   *)
(* its own SQLAlchemyUnitOfWork; the steps of the two interleave.  The     *)
(* second unit of work is given by the session it holds.                   *)
(***************************************************************************)
\* the session the second unit of work holds (0: None)
OtherSession ==
    IF \E s \in Sessions : sessions[s].other /\ sessions[s].status = "open"
    THEN CHOOSE s \in Sessions : sessions[s].other /\ sessions[s].status = "open"
    ELSE 0

\* __aenter__ of the second unit of work
OtherEnter ==
    /\ OtherSession = 0
    /\ \E s \in Sessions : sessions[s].status = "new"
    /\ LET s == session_factory
       IN  sessions' = [sessions EXCEPT ![s].status = "open", ![s].other = TRUE]
    /\ UNCHANGED <<uow, db, stack, exc, last>>

\* SQLAlchemyBaseRepositorio.save of a new user in the block of the second
\* unit of work: add, flush, refresh
OtherSave(key, stage, x) ==
    /\ OtherSession # 0
    /\ sessions[OtherSession].raised = NoExc
    /\ LET s == OtherSession
           rowid == NewId(s, sessions[s].nw + 1)
           dup == \E r \in View(s).rows : r.t = "usuarios" /\ r.key = key /\ r.id # rowid
           blocked == \E q \in Sessions \ {s} : \E i \in 1..Len(sessions[q].ops) :
                         /\ sessions[q].ops[i].kind = "save"
                         /\ sessions[q].ops[i].t = "usuarios"
                         /\ sessions[q].ops[i].key = key
           flushed == stage \in {"refresh", "ok"}
           w == <<s, sessions[s].nw + 1>>
           out == IF stage = "ok" THEN NoExc ELSE RepoCatch(x)
       IN  /\ key \in NewKeys("usuarios")
           /\ stage = "ok" <=> x = NoExc
           /\ x = DupError("usuarios", key, 3) => (dup /\ stage = "flush")
           /\ dup => x = DupError("usuarios", key, 3)
           /\ blocked => stage = "flush"
           /\ flushed => Flushes < MaxWrites
           /\ sessions' = [sessions EXCEPT
                  ![s].ops = IF flushed THEN Append(@, Op("save", "usuarios", rowid, key, 0, w)) ELSE @,
                  ![s].nw = IF flushed THEN @ + 1 ELSE @,
                  ![s].raised = out]
           /\ db' = IF flushed THEN flush(db, sessions'[s].ops) ELSE db
    /\ UNCHANGED <<uow, stack, exc, last>>

\* __aexit__ of the second unit of work; x is what its rollback / commit raised
OtherExit(x) ==
    /\ OtherSession # 0
    /\ LET s == OtherSession
           excIn == sessions[s].raised
       IN  /\ db' = IF ExitCommits(excIn, x) THEN Committed(s) ELSE db
           /\ sessions' = [ExitFinally(Left(sessions, s, excIn), s)
                             EXCEPT ![s].raised = ExitTry(excIn, x)]
    /\ UNCHANGED <<uow, stack, exc, last>>

OtherSaveStep ==
    /\ OtherSession # 0
    /\ \E i \in 1..Len(KeysOf("usuarios")), stage \in {"flush", "refresh", "ok"} :
         \E x \in {NoExc, DupError("usuarios", KeysOf("usuarios")[i], 3), GenericError(3)} :
           OtherSave(KeysOf("usuarios")[i], stage, x)

OtherExitStep == OtherSession # 0 /\ \E x \in {NoExc, GenericError(4)} : OtherExit(x)

ConcNext ==
    \/ Enter
    \/ SaveStep
    \/ ExitStep
    \/ OtherEnter
    \/ OtherSaveStep
    \/ OtherExitStep

ConcSpec == Init /\ [][ConcNext]_vars

(***************************************************************************)
(* The repositories as functions of what the session sees: the reads of    *)
(* SQLAlchemyBaseRepositorio, the value save returns, and the services'    *)
(* lookup by id.  A repository is called in a block whose session sees a   *)
(* store with rows already committed.  A value is None or <<v>>; a list is *)
(* a sequence.                                                             *)
(***************************************************************************)
Repos == {"usuarios", "roles", "contactos"}

\* rows committed to the store before the block was entered
StoredRows ==
    {[t |-> "usuarios", id |-> 2, key |-> "a@b.com", w |-> <<0, 0>>],
     [t |-> "usuarios", id |-> 3, key |-> "x@y.com", w |-> <<0, 0>>],
     [t |-> "roles", id |-> 4, key |-> "user", w |-> <<0, 0>>],
     [t |-> "contactos", id |-> 5, key |-> "u1", w |-> <<0, 0>>],
     [t |-> "contactos", id |-> 6, key |-> "u2", w |-> <<0, 0>>]}

\* the identifiers a caller asks for: those of the rows and one of no row
AskedIds == {r.id : r \in StoredRows} \cup {1, 9}

RepoInit ==
    /\ uow = Repositorios(1)
    /\ sessions = [s \in Sessions |->
                     IF s = 1 THEN [NewSession EXCEPT !.status = "open"] ELSE NewSession]
    /\ \E R \in SUBSET StoredRows :
         /\ Cardinality(R) <= MaxRows
         /\ db = [InitDB EXCEPT !.rows = @ \cup R]
    /\ stack = <<[sess |-> 1]>>
    /\ exc = NoExc
    /\ last = NoEvent

\* the outcome of a call: the value returned, or the exception raised
Gives(v) == [ok |-> TRUE, exc |-> NoExc, val |-> v]
Fails(e) == [ok |-> FALSE, exc |-> e, val |-> None]

\* the rows of table t in the store d
RowsOf(d, t) == {r \in d.rows : r.t = t}

\* await self.db_session.get(self.orm_model, id): the instance, or None
Get(d, t, id) ==
    IF \E r \in RowsOf(d, t) : r.id = id
    THEN <<CHOOSE r \in RowsOf(d, t) : r.id = id>>
    ELSE None

\* the domain entity with the attributes of the ORM instance r
Entity(r) == [id |-> r.id, key |-> r.key]

\* Contacto.__init__ requires name and email, which
\* ContactoRepositorioImpl._to_domain_entity does not pass
ContactoTypeError ==
    Raised("TypeError", 6,
           <<Txt("__init__() missing 2 required positional arguments: 'name' and 'email'")>>, <<>>)

\* (variant: the instance is read without the test for None)
_to_domain_entity_NoCheck(t, o) ==
    IF o = None THEN Fails(NoneAttr)
    ELSE IF t = "contactos" THEN Fails(ContactoTypeError)
    ELSE Gives(<<Entity(o[1])>>)

\* _to_domain_entity of the repository of table t
_to_domain_entity(t, o) ==
    IF o = None THEN Gives(None)
    ELSE IF t = "contactos" THEN Fails(ContactoTypeError)
    ELSE Gives(<<Entity(o[1])>>)

\* the except clauses of a repository method around the outcome r of its try
\* block
Caught(r) == IF r.ok THEN r ELSE Fails(RepoCatch(r.exc))

\* SQLAlchemyBaseRepositorio.get_by_id; x is what session.get raises
get_by_id(t, d, id, x) ==
    IF x # NoExc THEN Fails(RepoCatch(x))
    ELSE Caught(_to_domain_entity(t, Get(d, t, id)))

\* filter_criteria: a dict, given as the set of its items <<field, value>>.
\* The concrete repositories filter on the unique column of their table.
Fields == {"key"}

FilterValues(t) == {None} \cup {<<KeysOf(t)[i]>> : i \in 1..Len(KeysOf(t))}

Filters(t) == {{}} \cup {{<<f, v>>} : f \in Fields, v \in FilterValues(t)}

\* getattr(self.orm_model, key) == value: with value None this is `IS NULL`,
\* which no row satisfies on a column that is not nullable
Matches(r, f, v) == v # None /\ r[f] = v[1]

\* scalar_one_or_none() on more than one row
MultipleResultsFound ==
    Raised("MultipleResultsFound", 7,
           <<Txt("Multiple rows were found when one or none was required")>>, <<>>)

\* SQLAlchemyBaseRepositorio._get_one_by_filter; x is what execute raises
_get_one_by_filter(t, d, fc, x) ==
    LET sel == {r \in RowsOf(d, t) : \A p \in fc : Matches(r, p[1], p[2])}
    IN  IF x # NoExc THEN Fails(RepoCatch(x))
        ELSE IF Cardinality(sel) > 1 THEN Fails(RepoCatch(MultipleResultsFound))
        ELSE Caught(_to_domain_entity(t, IF sel = {} THEN None
                                          ELSE <<CHOOSE r \in sel : TRUE>>))

\* the rows _get_many_by_filter selects: `if value is not None` skips a field
Selected(d, t, fc) ==
    {r \in RowsOf(d, t) : \A p \in fc : p[2] # None => Matches(r, p[1], p[2])}

\* the orders in which a query with no ORDER BY can hand out the rows S
Orders(S) ==
    {o \in [1..Cardinality(S) -> S] : \A i, j \in 1..Cardinality(S) : o[i] = o[j] => i = j}

\* query.offset(skip).limit(limit)
Page(order, skip, limit) ==
    SubSeq(order, skip + 1, IF skip + limit < Len(order) THEN skip + limit ELSE Len(order))

\* line 211: the entities of the instances of the page, None left out; a
\* conversion that raises ends the comprehension
RECURSIVE Convert(_, _)
Convert(t, page) ==
    IF page = <<>> THEN Gives(<<>>)
    ELSE IF ~_to_domain_entity(t, <<Head(page)>>).ok
    THEN _to_domain_entity(t, <<Head(page)>>)
    ELSE IF ~Convert(t, Tail(page)).ok THEN Convert(t, Tail(page))
    ELSE Gives(_to_domain_entity(t, <<Head(page)>>).val \o Convert(t, Tail(page)).val)

\* SQLAlchemyBaseRepositorio._get_many_by_filter; order is the order in which
\* the store hands out the selected rows, x is what execute raises
_get_many_by_filter(t, fc, skip, limit, order, x) ==
    IF x # NoExc THEN Fails(RepoCatch(x))
    ELSE Caught(Convert(t, Page(order, skip, limit)))

\* SQLAlchemyBaseRepositorio.get_all
get_all(t, skip, limit, order, x) == _get_many_by_filter(t, {}, skip, limit, order, x)

\* the not-found error of the service of table t
NotFoundClass(t) ==
    IF t = "usuarios" THEN "UsuarioNoEncontradoError"
    ELSE IF t = "roles" THEN "RolNoEncontradoError"
    ELSE "ContactoNoEncontradoError"

\* obtener_usuario_por_id / obtener_rol_por_id / obtener_contacto_por_id:
\* r is the outcome of get_by_id
obtener_por_id(t, r) ==
    IF r.ok /\ r.val = None THEN Fails(NoEncontrado(NotFoundClass(t))) ELSE r

\* the call fn(call) whose storage call raised x, and its outcome r
Answer(fn, call, x, r) ==
    [NoEvent EXCEPT !.ev = fn, !.call = call, !.x = x, !.out = r.exc,
                    !.returned = r.ok, !.res = r.val]

\* the body of the block makes one call of a repository, or a save and then
\* one call
FirstCall == InBody /\ last = NoEvent
SecondCall == InBody /\ (last = NoEvent \/ last.ev = "save")

\* a read of a repository in the body of the block: the outcome goes to the
\* body, an exception raised propagates in it
RepoRead(fn, call, x, r) ==
    /\ exc' = r.exc
    /\ last' = Answer(fn, call, x, r)
    /\ UNCHANGED <<uow, sessions, db, stack>>

RepoGetById ==
    /\ SecondCall
    /\ \E t \in Repos, id \in AskedIds, x \in {NoExc, GenericError(1)} :
         RepoRead("get_by_id", [NoCall EXCEPT !.t = t, !.id = id], x,
                  get_by_id(t, View(RepoOf(t)), id, x))

ObtenerPorId ==
    /\ SecondCall
    /\ \E t \in Repos, id \in AskedIds, x \in {NoExc, GenericError(1)} :
         RepoRead("obtener_por_id", [NoCall EXCEPT !.t = t, !.id = id], x,
                  obtener_por_id(t, get_by_id(t, View(RepoOf(t)), id, x)))

RepoGetOne ==
    /\ SecondCall
    /\ \E t \in Repos, x \in {NoExc, GenericError(1)} : \E fc \in Filters(t) :
         RepoRead("_get_one_by_filter", [NoCall EXCEPT !.t = t, !.fc = fc], x,
                  _get_one_by_filter(t, View(RepoOf(t)), fc, x))

RepoGetMany ==
    /\ SecondCall
    /\ \E t \in Repos, x \in {NoExc, GenericError(1)}, skip \in 0..MaxPage, limit \in 0..MaxPage :
         \E fc \in Filters(t) : \E order \in Orders(Selected(View(RepoOf(t)), t, fc)) :
           RepoRead("_get_many_by_filter",
                    [NoCall EXCEPT !.t = t, !.fc = fc, !.skip = skip, !.limit = limit], x,
                    _get_many_by_filter(t, fc, skip, limit, order, x))

RepoGetAll ==
    /\ SecondCall
    /\ \E t \in Repos, x \in {NoExc, GenericError(1)}, skip \in 0..MaxPage, limit \in 0..MaxPage :
         \E order \in Orders(Selected(View(RepoOf(t)), t, {})) :
           RepoRead("get_all", [NoCall EXCEPT !.t = t, !.skip = skip, !.limit = limit], x,
                    get_all(t, skip, limit, order, x))

\* the record save writes: that of the entity's id when session.get finds it,
\* else a new one with an id of its own
SavedId(s, t, id) ==
    IF id # 0 /\ Get(View(s), t, id) # None THEN id ELSE NewId(s, sessions[s].nw + 1)

\* SQLAlchemyBaseRepositorio.save with the value it returns: get (when the
\* entity has an id), populate, add, flush, refresh, _to_domain_entity of the
\* refreshed instance.  x is what the flush raises.
RepoSave(t, id, key, x) ==
    /\ RepoOf(t) # 0
    /\ LET s == RepoOf(t)
           rowid == SavedId(s, t, id)
           w == <<s, sessions[s].nw + 1>>
           flushed == x = NoExc
       IN  /\ (\E r \in View(s).rows : r.t = t /\ r.key = key /\ r.id # rowid)
                 <=> x = DupError(t, key, 1)
           /\ flushed => Flushes < MaxWrites
           /\ sessions' = IF flushed
                          THEN [sessions EXCEPT ![s].ops = Append(@, Op("save", t, rowid, key, 0, w)),
                                                ![s].nw = @ + 1]
                          ELSE sessions
           /\ db' = IF flushed THEN flush(db, sessions'[s].ops) ELSE db
           /\ LET r == IF flushed
                       THEN Caught(_to_domain_entity(t, Get(ApplyOps(db', sessions'[s].ops), t, rowid)))
                       ELSE Fails(RepoCatch(x))
              IN  /\ exc' = r.exc
                  /\ last' = Answer("save", [NoCall EXCEPT !.t = t, !.id = id, !.key = key], x, r)
    /\ UNCHANGED <<uow, stack>>

RepoSaveStep ==
    /\ FirstCall
    /\ \E t \in Repos, id \in AskedIds \cup {0} : \E i \in 1..Len(KeysOf(t)) :
         \E x \in {NoExc, DupError(t, KeysOf(t)[i], 1), GenericError(1)} :
           RepoSave(t, id, KeysOf(t)[i], x)

RepoNext ==
    \/ RepoGetById
    \/ ObtenerPorId
    \/ RepoGetOne
    \/ RepoGetMany
    \/ RepoGetAll
    \/ RepoSaveStep

RepoSpec == RepoInit /\ [][RepoNext]_vars

(***************************************************************************)
(* RolServicio.  Its constructor takes a role repository, a user           *)
(* repository and a session (rol_servicio.py 18-21); the provider          *)
(* get_rol_servicio calls it with a unit of work.  Users are created in    *)
(* blocks of the unit of work, as UsuarioServicio does.                    *)
(***************************************************************************)
\* the db_session RolServicio was constructed with (0: no service yet)
ServSession ==
    IF \E s \in Sessions : sessions[s].servicio /\ sessions[s].status = "open"
    THEN CHOOSE s \in Sessions : sessions[s].servicio /\ sessions[s].status = "open"
    ELSE 0

\* RolServicio(uow=uow): __init__ has no parameter uow
UowKeywordError ==
    Raised("TypeError", 8,
           <<Txt("RolServicio.__init__() got an unexpected keyword argument 'uow'")>>, <<>>)

\* deps.get_rol_servicio(uow)
GetRolServicio ==
    /\ Running
    /\ last' = Answer("get_rol_servicio", NoCall, NoExc, Fails(UowKeywordError))
    /\ UNCHANGED <<uow, sessions, db, stack, exc>>

\* RolServicio(RolRepositorioImpl(db), UsuarioRepositorioImpl(db), db) on a
\* session of the factory
NewRolServicio ==
    /\ Running
    /\ ServSession = 0
    /\ \E s \in Sessions : sessions[s].status = "new"
    /\ sessions' = [sessions EXCEPT ![session_factory].status = "open",
                                    ![session_factory].servicio = TRUE]
    /\ last' = NoEvent
    /\ UNCHANGED <<uow, db, stack, exc>>

\* RolServicio.asignar_rol_a_usuario (kind "asignar") and
\* remover_rol_de_usuario (kind "remover"): the role and the user are looked
\* up through the repositories of the service; the association is changed on
\* the ORM instances of self.db_session and committed with
\* self.db_session.commit(), which raises x
CambiarRol(kind, uid, rid, x) ==
    /\ Running
    /\ ServSession # 0
    /\ LET s == ServSession
           rol == obtener_por_id("roles", get_by_id("roles", View(s), rid, NoExc))
           usuario == get_by_id("usuarios", View(s), uid, NoExc)
           asignado == \E l \in View(s).links : l.uid = uid /\ l.rid = rid
           cambia == rol.ok /\ usuario.val # None /\ (asignado <=> kind = "remover")
           op == Op(kind, "user_roles", uid, "", rid, <<s, sessions[s].nw + 1>>)
           r == IF ~rol.ok THEN rol
                ELSE IF usuario.val = None THEN Fails(NoEncontrado("UsuarioNoEncontradoError"))
                ELSE IF cambia /\ x # NoExc THEN Fails(x)
                ELSE Gives(usuario.val \o rol.val)
       IN  /\ ~cambia => x = NoExc
           /\ cambia => sessions[s].nw < MaxWrites
           /\ db' = IF cambia /\ x = NoExc THEN ApplyOps(db, Append(sessions[s].ops, op)) ELSE db
           /\ sessions' = IF cambia /\ x = NoExc
                          THEN [sessions EXCEPT ![s].ops = <<>>, ![s].nw = @ + 1]
                          ELSE sessions
           /\ exc' = Propagate(r.exc)
           /\ last' = [Answer(IF kind = "asignar" THEN "asignar_rol_a_usuario"
                              ELSE "remover_rol_de_usuario",
                              [NoCall EXCEPT !.id = uid], x, r)
                         EXCEPT !.sess = s, !.commits = IF cambia THEN 1 ELSE 0]
    /\ UNCHANGED <<uow, stack>>

AsignarRolAUsuarioStep ==
    /\ ServSession # 0
    /\ \E uid \in {0} \cup IdsIn(ServSession, "usuarios"), rid \in {0} \cup IdsIn(ServSession, "roles") :
         \E x \in {NoExc, GenericError(1)} : CambiarRol("asignar", uid, rid, x)

RemoverRolDeUsuarioStep ==
    /\ ServSession # 0
    /\ \E uid \in {0} \cup IdsIn(ServSession, "usuarios"), rid \in {0} \cup IdsIn(ServSession, "roles") :
         \E x \in {NoExc, GenericError(1)} : CambiarRol("remover", uid, rid, x)

ServNext ==
    \/ Enter
    \/ SaveStep
    \/ AsignarRolStep
    \/ ExitStep
    \/ GetRolServicio
    \/ NewRolServicio
    \/ AsignarRolAUsuarioStep
    \/ RemoverRolDeUsuarioStep

ServSpec == Init /\ [][ServNext]_vars

(***************************************************************************)
(* Properties.                                                             *)
(***************************************************************************)
\* the writes of session s that the store holds as committed
Visible(s) == {w \in db.log : w[1] = s}

\* C1, as stated: when a write raises (here: a save rejected for a duplicate
\* email) and the exception escapes the body of the block, no write of that
\* block is visible after the exit.
C1_AtomicityAsStated ==
    (last.ev = "exit" /\ last.out.cls = "EmailYaRegistradoError")
        => Visible(last.frame) = {}

\* C1, amended: when an exception escapes the body of a block whose body issued
\* no commit(), no write made in the block is visible after the exit, ever.
C1_Atomicity ==
    \A s \in Sessions : sessions[s].aborted => Visible(s) = {}

\* a block flushed a write, its next save raised, and the exit rolled back
C1_Witness ==
    /\ last.ev = "exit"
    /\ last.out.cls = "EmailYaRegistradoError"
    /\ last.rollbacks = 1
    /\ sessions[last.frame].aborted
    /\ sessions[last.frame].nw >= 1

\* C2: after any exit of a block that was entered, the session acquired at
\* its entry has been closed (once) and uow.session, uow.usuarios, uow.roles
\* and uow.contactos are all None.
C2_Cleanup ==
    last.ev = "exit" =>
        /\ sessions[last.frame].status = "closed"
        /\ sessions[last.frame].closes = 1
        /\ uow = NoneUoW

C4_RollbackFailure ==
    (last.ev = "exit" /\ last.rollbacks = 1 /\ last.x.cls # "None") =>
        /\ IsDominio(last.out)
        /\ last.out.cause = last.x.oid
        /\ last.closes = 1
        /\ sessions[last.sess].closes = 1

\* C5: when the body returns and the commit of the exit raises, the caller
\* gets a DominioExcepcion (a PersistenciaError for a plain SQLAlchemyError),
\* commit was attempted once and the session is closed exactly once.
C5_CommitFailure ==
    (last.ev = "exit" /\ last.commits >= 1 /\ last.x.cls # "None") =>
        /\ IsDominio(last.out)
        /\ last.x.cls = "SQLAlchemyError" => last.out.cls = "PersistenciaError"
        /\ last.commits = 1
        /\ last.closes = 1
        /\ sessions[last.sess].closes = 1

\* C6: when ValueError("boom") escapes the body of a block after a save (and no
\* commit), the exit rolls back, what propagates is a DominioExcepcion whose
\* message ends with the original message and whose cause is the original
\* exception, and the saved user is not persisted.
C6_UnclassifiedBody ==
    [][(ExitStep /\ exc.cls = "ValueError"
          /\ sessions[Frame].nw >= 1 /\ ~sessions[Frame].midCommit) =>
          /\ last'.rollbacks = 1
          /\ last'.x.cls = "None" =>
                /\ last'.out.cls = "DominioExcepcion"
                /\ Tail(last'.out.msg) = exc.msg
                /\ last'.out.cause = exc.oid
          /\ {w \in db'.log : w[1] = Frame} = {}]_vars

\* C7: when the exception escaping the body of a block is a Domain Error, the
\* exit rolls back and then lets that very exception out, unmodified; the
\* handler of uow.begin() lets a Domain Error out unmodified too.
C7_DomainPassThrough ==
    [][/\ \A e \in BodyExcs : IsDominio(e) => BeginHandler(e) = e
       /\ (ExitStep /\ IsDominio(exc)) =>
              /\ last'.rollbacks = 1
              /\ last'.x.cls = "None" => last'.out = exc]_vars

\* C8: every exception that leaves a repository operation, and every Exception
\* that leaves the exit of a block, is a DominioExcepcion.
C8_NoUnclassifiedEscape ==
    [][/\ ((SaveStep \/ DeleteStep \/ GetByIdStep) /\ exc'.cls # "None")
              => IsDominio(exc')
       /\ (ExitStep /\ IsException(last'.out)) => IsDominio(last'.out)]_vars

\* C9: when a block is left with no exception, by the body or by the exit,
\* every write it flushed and did not roll back is persisted, whether or not
\* another block was entered and left inside it.
C9_NestedIndependent ==
    [][(ExitStep /\ exc.cls = "None" /\ last'.out.cls = "None") =>
          \A i \in 1..Len(sessions[Frame].ops) :
              sessions[Frame].ops[i].w \in db'.log]_vars

\* the unit of work has been through a block and is closed
Closed ==
    /\ uow = NoneUoW
    /\ stack = <<>>
    /\ \E s \in Sessions : sessions[s].status = "closed"

\* C10, as stated: entering a closed unit of work again never yields an active
\* one, with a session and repositories.
C10_SingleUse ==
    [][(Enter /\ Closed) => (uow'.session = 0 /\ uow'.usuarios = 0)]_vars

\* C10, amended: entering a closed unit of work again yields an active one: a
\* session the factory has not handed out before, open, with the three
\* repositories bound to it.
C10_Reusable ==
    [][(Enter /\ Closed) =>
          /\ uow'.session # 0
          /\ sessions[uow'.session].status = "new"
          /\ sessions'[uow'.session].status = "open"
          /\ uow'.usuarios = uow'.session
          /\ uow'.roles = uow'.session
          /\ uow'.contactos = uow'.session]_vars

\* a second block is active after the first one was closed
C10_Witness ==
    /\ Len(stack) = 1
    /\ uow.session # 0
    /\ sessions[uow.session].status = "open"
    /\ \E s \in Sessions \ {uow.session} : sessions[s].status = "closed"

FirstOfKind(m, k) ==
    IF \E i \in 1..Len(m) : m[i].k = k
    THEN CHOOSE i \in 1..Len(m) : m[i].k = k /\ \A j \in 1..(i-1) : m[j].k # k
    ELSE 0

\* C13: map_exception and wrap_exception return a DominioExcepcion for every
\* exception handed to them; they never raise.
C13_MapperNeverThrows ==
    last.ev \in {"map_exception", "wrap_exception"} =>
        (last.returned /\ IsDominio(last.out))

\* C14: map_exception returns a Domain Error handed to it as the very same
\* object, and mapping what map_exception returned returns it again.
C14_Idempotent ==
    [][/\ (MapException /\ IsDominio(exc)) => (last'.returned /\ last'.out = exc)
       /\ MapAgain => (last'.returned /\ last'.out = last.out)]_vars

\* map_exception made a Domain Error from an IntegrityError and was applied
\* to that Domain Error
C14_Witness ==
    /\ last.ev = "map_exception"
    /\ last.returned
    /\ exc.cls = "IntegrityError"
    /\ last.x # exc
    /\ last.x.cls = "EmailYaRegistradoError"
    /\ last.out = last.x

\* the text of e is that of a unique violation and of no other violation
UniqueViolation(e) ==
    /\ e.cls = "IntegrityError"
    /\ e.pgcode \in {<<>>, <<"23", "505">>}
    /\ FirstOfKind(e.msg, "unique") # 0
    /\ FirstOfKind(e.msg, "fk") = 0
    /\ FirstOfKind(e.msg, "check") = 0

\* C15: for an integrity error whose text is a unique violation with
\* `Key (email)=(v)`, map_exception returns an EmailYaRegistradoError whose
\* email is v, whatever the constraint is called, with or without a pgcode.
C15_ConflictExtraction ==
    (/\ last.ev = "map_exception"
     /\ UniqueViolation(last.x)
     /\ \E i \in 1..Len(last.x.msg) : last.x.msg[i].k = "key" /\ last.x.msg[i].a = "email")
    => /\ last.returned
       /\ last.out.cls = "EmailYaRegistradoError"
       /\ \E i \in 1..Len(last.x.msg) :
             /\ last.x.msg[i].k = "key" /\ last.x.msg[i].a = "email"
             /\ last.out.args = <<last.x.msg[i].b>>

\* C16: a unique violation on a field other than email is mapped to a generic
\* DominioExcepcion whose text carries the name of the violated constraint,
\* with pgcode 23505 and with no pgcode.
C16_NonEmailUnique ==
    (/\ last.ev = "map_exception"
     /\ UniqueViolation(last.x)
     /\ \E i \in 1..Len(last.x.msg) : last.x.msg[i].k = "key"
     /\ \A i \in 1..Len(last.x.msg) : last.x.msg[i].k = "key" => last.x.msg[i].a # "email")
    => /\ last.returned
       /\ last.out.cls = "DominioExcepcion"
       /\ \E i \in 1..Len(last.out.msg) :
             last.out.msg[i].n = last.x.msg[FirstOfKind(last.x.msg, "unique")].n

\* the text of e is that of a foreign-key violation, and of no unique
\* violation, with `Key (f)=(k) is not present in table "t"`
ForeignKeyViolation(e) ==
    /\ e.cls = "IntegrityError"
    /\ e.pgcode \in {<<>>, <<"None">>, <<"23", "503">>}
    /\ FirstOfKind(e.msg, "fk") # 0
    /\ FirstOfKind(e.msg, "unique") = 0
    /\ \E i \in 1..Len(e.msg) : e.msg[i].k = "key" /\ e.msg[i].n # NoName

\* C17: for a foreign-key violation that names the key k and the table t,
\* map_exception (and wrap_exception) return a ClaveForaneaError whose entity
\* is t capitalised and whose key is k; the same error leaves a repository
\* method whose storage call raised the violation, and a block whose body
\* let the violation out.
C17_ReferentialIntegrity ==
    (last.ev # "none" /\ ForeignKeyViolation(last.x)) =>
        /\ last.ev \in {"map_exception", "wrap_exception"} => last.returned
        /\ last.out.cls = "ClaveForaneaError"
        /\ \E i \in 1..Len(last.x.msg) :
              /\ last.x.msg[i].k = "key" /\ last.x.msg[i].n # NoName
              /\ last.x.msg[i].n = <<"roles">> => last.out.args[1] = <<"Roles">>
              /\ last.out.args[2] = last.x.msg[i].b
              /\ Len(last.out.args) = 2

\* a foreign-key violation with no pgcode escaped the body of a block, and
\* the block let out the ClaveForaneaError for roles / 999
C17_Witness ==
    /\ last.ev = "__aexit__"
    /\ ForeignKeyViolation(last.x)
    /\ last.x.pgcode = <<>>
    /\ last.out.cls = "ClaveForaneaError"
    /\ last.out.args = <<(<<"Roles">>), "999">>
    /\ last.out.cause = last.x.oid

\* C18: map_exception maps a NoResultFound to an EntidadNoEncontradaError.
C18_NoResultFound ==
    (last.ev = "map_exception" /\ last.x.cls = "NoResultFound") =>
        (last.returned /\ last.out.cls = "EntidadNoEncontradaError")

\* the operation a timeout text names
OperationLabel(m) ==
    IF \E i \in 1..Len(m) : m[i] = Txt("query") THEN "consulta"
    ELSE IF \E i \in 1..Len(m) : m[i] = Txt("update") THEN "actualizacion"
    ELSE IF \E i \in 1..Len(m) : m[i] = Txt("insert") THEN "insercion"
    ELSE IF \E i \in 1..Len(m) : m[i] = Txt("delete") THEN "eliminacion"
    ELSE "desconocida"

TimeoutClasses == {"SATimeoutError", "AsyncioTimeoutError"}

IsPrefix(s, t) == Len(s) <= Len(t) /\ SubSeq(t, 1, Len(s)) = s

\* C20: no repository operation commits, rolls back or closes a session: it
\* leaves the committed store, the unit of work and every session's status
\* as they are and at most adds flushed writes; the committed store changes
\* only in a commit of the unit of work (called by the body or by the exit).
C20_RepositoriesNeverCommit ==
    [][/\ (SaveStep \/ DeleteStep \/ AsignarRolStep \/ GetByIdStep) =>
            /\ db' = db
            /\ uow' = uow
            /\ \A s \in Sessions :
                  /\ sessions'[s].status = sessions[s].status
                  /\ sessions'[s].closes = sessions[s].closes
                  /\ sessions'[s].midCommit = sessions[s].midCommit
                  /\ IsPrefix(sessions[s].ops, sessions'[s].ops)
       /\ db' # db => (CommitStep \/ ExitStep)]_vars

\* two writes flushed by repository operations, none committed
C20_Witness ==
    /\ uow.session # 0
    /\ Len(sessions[uow.session].ops) = 2
    /\ sessions[uow.session].status = "open"
    /\ db = InitDB

\* e is the error made of a unique violation on usuarios.email
FromDuplicate(e) ==
    /\ e.cls # "None"
    /\ e.notes # <<>>
    /\ e.notes[1] = "IntegrityError"

\* e is an EmailYaRegistradoError for the email of the violation it was made of
ConflictFor(e) ==
    /\ e.cls = "EmailYaRegistradoError"
    /\ \E i \in 1..Len(e.notes[2]) :
          e.notes[2][i].k = "key" /\ e.args = <<e.notes[2][i].b>>

C27_NoSessionNoOp ==
    [][((CommitStep \/ RollbackStep) /\ uow.session = 0) =>
          /\ last'.out = NoExc
          /\ last'.commits = 0
          /\ last'.rollbacks = 0
          /\ exc' = exc
          /\ uow' = uow
          /\ sessions' = sessions
          /\ db' = db
          /\ stack' = stack]_vars

\* a block saved a user and was left with a commit; rollback() was then called
\* on the unit of work, which holds no session
C27_Witness ==
    /\ last.ev = "rollback"
    /\ last.sess = 0
    /\ last.out = NoExc
    /\ stack = <<>>
    /\ uow = NoneUoW
    /\ db.log # {}
    /\ \E s \in Sessions : sessions[s].status = "closed"

C30_CancellationPath ==
    [][(ExitStep /\ exc.cls \in BaseOnlyClasses) =>
          /\ last'.rollbacks = 1
          /\ last'.commits = 0
          /\ db' = db
          /\ last'.out = exc
          /\ last'.closes = 1
          /\ sessions'[Frame].status = "closed"
          /\ uow' = NoneUoW]_vars

\* C26: uow.begin() raises RuntimeError, which is no DominioExcepcion, when
\* the unit of work holds no session; when it holds one, begin() yields that
\* session, commits, rolls back and closes nothing, and whatever exception
\* its body raises that is no Domain Error leaves it as a Domain Error.
C26_DirectHandle ==
    [][BeginStep =>
          /\ uow.session = 0 =>
                /\ last'.out.cls = "RuntimeError"
                /\ ~IsDominio(last'.out)
          /\ uow.session # 0 =>
                /\ last'.sess = uow.session
                /\ last'.commits + last'.rollbacks + last'.closes = 0
                /\ sessions' = sessions
                /\ db' = db
                /\ uow' = uow
                /\ (last'.x.cls # "None" /\ ~IsDominio(last'.x)) => IsDominio(last'.out)]_vars

\* C28: for every exception x, wrap_exception(x) ends as map_exception(x)
\* does: it returns where map_exception returns, a Domain Error of the same
\* class, payload and message that differs from that of map_exception at
\* most in its notes, which name the class and the message of x and carry
\* the traceback; where map_exception raises, wrap_exception raises the same.
C28_WrapPreservesClassification ==
    [][WrapException =>
          /\ last'.returned = map_exception(exc).ok
          /\ last'.out.cls = map_exception(exc).exc.cls
          /\ last'.out.args = map_exception(exc).exc.args
          /\ [last'.out EXCEPT !.notes = <<>>] = [map_exception(exc).exc EXCEPT !.notes = <<>>]
          /\ last'.returned => last'.out.notes = <<exc.cls, exc.msg, "traceback">>]_vars

\* wrap_exception made the EmailYaRegistradoError of a unique violation and
\* attached the notes
C28_Witness ==
    /\ last.ev = "wrap_exception"
    /\ last.returned
    /\ last.x.cls = "IntegrityError"
    /\ last.out.cls = "EmailYaRegistradoError"
    /\ last.out.args = <<"x@y.com">>
    /\ last.out.notes = <<"IntegrityError", last.x.msg, "traceback">>

\* the session of the repository of the call that has just been made sees no
\* record of the table with the identifier asked for
AbsentBefore ==
    Get(View(RepoOf(last'.call.t)), last'.call.t, last'.call.id) = None

\* C22: get_by_id of the repository of any table, on an identifier of which
\* the session sees no record, returns None and raises nothing when the
\* lookup itself returns; the lookup by id of the service then raises the
\* not-found Domain Error of the entity.
C22_AbsentIsNone ==
    [][/\ (last'.ev = "get_by_id" /\ RepoGetById /\ last'.x = NoExc /\ AbsentBefore) =>
            /\ last'.returned
            /\ last'.res = None
            /\ last'.out = NoExc
            /\ exc' = NoExc
       /\ (last'.ev = "obtener_por_id" /\ ObtenerPorId /\ last'.x = NoExc /\ AbsentBefore) =>
            /\ ~last'.returned
            /\ last'.out.cls = NotFoundClass(last'.call.t)
            /\ IsDominio(last'.out)]_vars

\* get_by_id of the contact repository returned None for an identifier of no
\* record, in a store that holds a contact
C22_Witness ==
    /\ last.ev = "get_by_id"
    /\ last.call.t = "contactos"
    /\ last.call.id = 9
    /\ last.returned
    /\ last.res = None
    /\ \E r \in db.rows : r.t = "contactos"

\* the filter without its fields of value None
WithoutNone(fc) == {p \in fc : p[2] # None}

\* the outcome r is the one the call that has just been made had
SameOutcome(r) ==
    /\ last'.returned = r.ok
    /\ last'.res = r.val
    /\ last'.out = r.exc

\* C23: _get_one_by_filter and _get_many_by_filter called with a filter that
\* has a field of value None end as the same call with that field left out.
C23_AbsentFilter ==
    [][/\ (last'.ev = "_get_one_by_filter" /\ RepoGetOne /\ \E p \in last'.call.fc : p[2] = None) =>
            SameOutcome(_get_one_by_filter(last'.call.t, View(RepoOf(last'.call.t)),
                                           WithoutNone(last'.call.fc), last'.x))
       /\ (last'.ev = "_get_many_by_filter" /\ RepoGetMany /\ \E p \in last'.call.fc : p[2] = None) =>
            \E order \in Orders(Selected(View(RepoOf(last'.call.t)), last'.call.t,
                                         WithoutNone(last'.call.fc))) :
               SameOutcome(_get_many_by_filter(last'.call.t, WithoutNone(last'.call.fc),
                                               last'.call.skip, last'.call.limit, order,
                                               last'.x))]_vars

\* the entities of the instances of the page whose reconstruction succeeds
RECURSIVE Reconstructed(_, _)
Reconstructed(t, page) ==
    IF page = <<>> THEN <<>>
    ELSE (IF _to_domain_entity(t, <<Head(page)>>).ok
          THEN _to_domain_entity(t, <<Head(page)>>).val ELSE <<>>)
         \o Reconstructed(t, Tail(page))

\* C24: get_all(skip, limit), when the query returns, returns the entities of
\* the records of the page whose reconstruction succeeds and raises nothing,
\* whether or not the reconstruction of a record of the page fails.
C24_DefensiveListing ==
    [][(last'.ev = "get_all" /\ RepoGetAll /\ last'.x = NoExc) =>
          /\ last'.returned
          /\ last'.out = NoExc
          /\ \E order \in Orders(RowsOf(View(RepoOf(last'.call.t)), last'.call.t)) :
                last'.res = Reconstructed(last'.call.t,
                                          Page(order, last'.call.skip, last'.call.limit))]_vars

\* the rows of the table of the save that has just been made, as its session
\* saw them before and sees them after
RowsBefore == RowsOf(View(RepoOf(last'.call.t)), last'.call.t)
RowsAfter ==
    RowsOf(ApplyOps(db', sessions'[RepoOf(last'.call.t)].ops), last'.call.t)

\* C25: a save whose flush returns updates the record of the entity's
\* identifier when the session finds one (the table keeps its records, that
\* one with the values of the entity) and else adds exactly one record; in
\* both cases it returns the entity of the record as the session holds it
\* after the flush.
C25_Upsert ==
    [][(last'.ev = "save" /\ RepoSaveStep /\ last'.x = NoExc) =>
          /\ IF ~AbsentBefore
             THEN /\ {r.id : r \in RowsAfter} = {r.id : r \in RowsBefore}
                  /\ \E r \in RowsAfter : r.id = last'.call.id /\ r.key = last'.call.key
             ELSE /\ RowsBefore \subseteq RowsAfter
                  /\ Cardinality(RowsAfter) = Cardinality(RowsBefore) + 1
          /\ last'.returned
          /\ \E r \in RowsAfter \ (IF AbsentBefore THEN RowsBefore ELSE {}) :
                /\ r.key = last'.call.key
                /\ ~AbsentBefore => r.id = last'.call.id
                /\ last'.res = <<Entity(r)>>]_vars

\* C21: the provider hands out a RolServicio built on the unit of work, and
\* asignar_rol_a_usuario / remover_rol_de_usuario change the association of a
\* user and a role inside a block of the unit of work: the service calls no
\* commit of its own, and an association becomes durable or stops being so
\* only in the exit of a block.
C21_RoleAssignmentOneTransaction ==
    [][/\ last'.ev = "get_rol_servicio" => last'.returned
       /\ last'.ev \in {"asignar_rol_a_usuario", "remover_rol_de_usuario"} =>
             /\ last'.commits = 0
             /\ last'.sess = uow.session
       /\ db'.links # db.links => (last'.ev = "exit" /\ last'.commits = 1)]_vars

====
